---------------------------- MODULE Spec2Model ----------------------------
(***************************************************************************)
(* Model of the closed-queueing-network optimizer:                         *)
(*   src/models/queueing_network.py   QueueingNetwork                      *)
(*   src/simulation/mva_solver.py     MVASolver                            *)
(*   src/algorithms/optimizer.py      QueueingOptimizer                    *)
(*   src/algorithms/firefly.py        FireflyAlgorithm                     *)
(*                                                                         *)
(* Floating-point numbers are modelled as exact rationals extended with    *)
(* +inf, -inf and NaN, so that numpy's division by zero (which yields inf  *)
(* and a warning, not an exception) is followed as the code computes it.   *)
(* Python objects and numpy arrays live in a heap of addresses, so that    *)
(* an assignment of a reference and a copy are different things.           *)
(***************************************************************************)
EXTENDS Integers, Sequences, FiniteSets, TLC

(***************************************************************************)
(* Bounds of the model.                                                    *)
(***************************************************************************)
MaxN == 3
MaxServers == 2
MaxCalls == 2

\* The networks of the model have one or two stations.
StationCounts == {1, 2}

\* Python's None: the null address, and the record that stands for "no object".
None == 0
NoObject == [kind |-> "None"]

(***************************************************************************)
(* The(S) is the element of the singleton S.  An operator that reads an    *)
(* argument more than once binds it with The({e : x \in {argument}}), so   *)
(* that the argument is evaluated once, as a Python call evaluates it.     *)
(***************************************************************************)
The(S) == CHOOSE r \in S : TRUE

(***************************************************************************)
(* Extended rationals: <<n, d>> with d >= 0 and gcd(n, d) = 1.             *)
(*   d > 0           the rational n/d                                      *)
(*   <<1, 0>>        +inf        <<-1, 0>>   -inf        <<0, 0>>   NaN      *)
(***************************************************************************)
Abs(x) == IF x < 0 THEN -x ELSE x

Sign(x) == IF x < 0 THEN -1 ELSE IF x > 0 THEN 1 ELSE 0

RECURSIVE GCD(_, _)
GCD(a, b) == IF b = 0 THEN a ELSE GCD(b, a % b)

Norm(n, d) ==
    IF d = 0 THEN <<Sign(n), 0>>
    ELSE The({IF d < 0 THEN <<(-n) \div g, (-d) \div g>> ELSE <<n \div g, d \div g>> :
              g \in {GCD(Abs(n), Abs(d))}})

Rat(n) == <<n, 1>>
Zero == <<0, 1>>
One == <<1, 1>>
Half == <<1, 2>>
NaN == <<0, 0>>
PosInf == <<1, 0>>
NegInf == <<-1, 0>>

IsNaN(a) == a = NaN
IsFinite(a) == a[2] > 0
IsInteger(a) == a[2] = 1

\* The sum is taken over the least common denominator and the product after
\* cross-cancelling, so that no intermediate integer is larger than it has to be.
RAdd(a, b) ==
    The({IF x[2] = 0 /\ y[2] = 0 THEN (IF x = y THEN x ELSE NaN)
         ELSE IF x[2] = 0 THEN x
         ELSE IF y[2] = 0 THEN y
         ELSE The({Norm(x[1] * (y[2] \div g) + y[1] * (x[2] \div g), (x[2] \div g) * y[2]) :
                   g \in {GCD(x[2], y[2])}}) :
         x \in {a}, y \in {b}})

RNeg(a) == The({<<-x[1], x[2]>> : x \in {a}})

RSub(a, b) == RAdd(a, RNeg(b))

RMul(a, b) ==
    The({IF x[2] = 0 \/ y[2] = 0 THEN Norm(Sign(x[1]) * Sign(y[1]), 0)
         ELSE The({<<(x[1] \div g1) * (y[1] \div g2), (x[2] \div g2) * (y[2] \div g1)>> :
                   g1 \in {GCD(Abs(x[1]), y[2])}, g2 \in {GCD(Abs(y[1]), x[2])}}) :
         x \in {a}, y \in {b}})

\* 1/b as IEEE-754 computes it: 1/0 = +inf, 1/inf = 0, 1/NaN = NaN.
Recip(b) == The({Norm(y[2], y[1]) : y \in {b}})

RDiv(a, b) == RMul(a, Recip(b))

RECURSIVE FracLt(_, _, _, _)
\* a/b < c/d for b > 0 and d > 0: by the integer parts, then by the
\* remainders turned over, so that no product is formed.
FracLt(a, b, c, d) ==
    IF a \div b # c \div d THEN a \div b < c \div d
    ELSE IF c % d = 0 THEN FALSE
    ELSE IF a % b = 0 THEN TRUE
    ELSE FracLt(d, c % d, b, a % b)

\* a < b; every comparison with NaN is false.
RLt(a, b) ==
    \E x \in {a}, y \in {b} :
        /\ ~IsNaN(x)
        /\ ~IsNaN(y)
        /\ IF x[2] = 0 /\ y[2] = 0 THEN x[1] < y[1]
           ELSE IF x[2] = 0 \/ y[2] = 0 THEN x[1] * y[2] < y[1] * x[2]
           ELSE FracLt(x[1], x[2], y[1], y[2])

RLe(a, b) == \E x \in {a}, y \in {b} : ~IsNaN(x) /\ ~IsNaN(y) /\ ~RLt(y, x)

RGt0(a) == RLt(Zero, a)

\* Python's min(a, b): b if b < a else a.
PyMin(a, b) == The({IF RLt(y, x) THEN y ELSE x : x \in {a}, y \in {b}})

\* int(x) of a finite float: truncation toward zero.
Trunc(a) == The({IF x[1] >= 0 THEN x[1] \div x[2] ELSE -((-x[1]) \div x[2]) : x \in {a}})

RAbs(a) == The({<<Abs(x[1]), x[2]>> : x \in {a}})

RECURSIVE RSum(_)
RSum(s) ==
    The({IF x = <<>> THEN Zero ELSE RAdd(RSum(SubSeq(x, 1, Len(x) - 1)), x[Len(x)]) :
         x \in {s}})

RECURSIVE ISum(_)
ISum(s) ==
    The({IF x = <<>> THEN 0 ELSE ISum(SubSeq(x, 1, Len(x) - 1)) + x[Len(x)] : x \in {s}})

\* The tuple <<f(1), ..., f(n)>> of a function f on 1..n, its entries evaluated.
Tuple(f) == SubSeq(f, 1, Len(f))

(***************************************************************************)
(* The heap.  A cell is a numpy array, a Python list or a QueueingNetwork  *)
(* object; the fields of a network that hold arrays hold their addresses.  *)
(***************************************************************************)
VARIABLES
    heap,           \* address -> cell
    base_network,   \* the network the caller built (QueueingOptimizer.base_network)
    candidate,      \* the network the last _vector_to_network call returned
    arg_routing,    \* the caller's routing_matrix argument (an address) or None
    arg_names,      \* the caller's station_names argument (an address) or None
    optimizer,      \* the QueueingOptimizer's own fields, or NoObject
    vector,         \* the argument of the last _vector_to_network call, <<>> before it
    metrics,        \* the record the last MVASolver.solve() returned, or NoObject
    solved,         \* the network that solve() was called on, or None
    calls,          \* how many solve() calls in a row were made on that network
    err,            \* the exception the last operation raised, or "none"
    phase,          \* "search" while QueueingOptimizer.optimize() runs, else "idle"
    op              \* the last operation

netvars == <<heap, base_network, candidate, arg_routing, arg_names, optimizer,
             vector, metrics, solved, calls, err, phase, op>>

NdArray(dtype, data) == [kind |-> "ndarray", dtype |-> dtype, data |-> data]
PyList(data) == [kind |-> "list", data |-> data]

\* The highest address in use; new objects are placed above it.
Top(h) == IF DOMAIN h = {} THEN 0 ELSE CHOOSE a \in DOMAIN h : \A b \in DOMAIN h : b <= a

\* The heap h with the cells of the function new added or replaced.
Store(h, new) == [a \in DOMAIN h \cup DOMAIN new |-> IF a \in DOMAIN new THEN new[a] ELSE h[a]]

\* The addresses a cell holds.
Refs(cell) ==
    IF cell.kind = "net"
    THEN {cell.mu, cell.m, cell.station_names, cell.P, cell.e}
    ELSE {}

\* Garbage collection: cells no root reaches are dropped.
Collect(h, roots) ==
    The({[a \in r0 \cup UNION {Refs(h[x]) : x \in r0} |-> h[a]] :
         r0 \in {(roots \ {None}) \cap DOMAIN h}})

(***************************************************************************)
(* numpy conversions.                                                      *)
(***************************************************************************)
\* np.array(x, dtype=int): every entry truncated toward zero.
AsIntData(data) == [i \in DOMAIN data |-> Rat(Trunc(data[i]))]

\* array[i] = x: an array of integers keeps int(x).
StoreItem(array, i, x) ==
    [array EXCEPT !.data[i] = IF array.dtype = "int" THEN Rat(Trunc(x)) ELSE x]

\* np.array(seq) of Python numbers: int64 iff every number is a Python int.
\* A Python number list is [dtype |-> "int" | "float", data |-> <<...>>].
ArrayOf(pylist) == NdArray(pylist.dtype, pylist.data)

(***************************************************************************)
(* QueueingNetwork._compute_visit_ratios: least squares of                 *)
(*   [P^T - I ; 1 ... 1] e = [0 ... 0 ; 1], then |e| / sum|e|.             *)
(* Solved exactly through the normal equations, for K <= 2.                *)
(***************************************************************************)
Dot(u, v) ==
    The({RSum(Tuple([i \in 1..Len(x) |-> RMul(x[i], y[i])])) : x \in {u}, y \in {v}})

\* The solution of [g11 g12; g12 g22] x = [1; 1]; of minimum norm when the
\* two columns are the same.
NormalEquations(g11, g12, g22) ==
    The({The({IF det = Zero
              THEN The({<<t, t>> : t \in {RDiv(One, RMul(Rat(2), a))}})
              ELSE <<RDiv(RSub(c, b), det), RDiv(RSub(a, b), det)>> :
              det \in {RSub(RMul(a, c), RMul(b, b))}}) :
         a \in {g11}, b \in {g12}, c \in {g22}})

LstSq(P, K) ==
    IF K = 1
    THEN The({<<RDiv(One, Dot(c, c))>> : c \in {<<RSub(P[1][1], One), One>>}})
    ELSE The({NormalEquations(Dot(c1, c1), Dot(c1, c2), Dot(c2, c2)) :
              c1 \in {<<RSub(P[1][1], One), P[1][2], One>>},
              c2 \in {<<P[2][1], RSub(P[2][2], One), One>>}})

\* Lines 141-142: e = |e|, e /= e.sum()
Normalised(e) == The({Tuple([i \in 1..Len(x) |-> RDiv(x[i], RSum(x))]) : x \in {e}})

compute_visit_ratios(P, K) ==
    The({Normalised(Tuple([i \in 1..K |-> RAbs(x[i])])) : x \in {LstSq(P, K)}})

\* np.ones((K, K)) / K
UniformRouting(K) == [i \in 1..K |-> [j \in 1..K |-> Norm(1, K)]]

\* np.allclose(x, 1.0): |x - 1| <= atol + rtol * 1 = 1e-8 + 1e-5
AllCloseToOne(x) == RLe(RAbs(RSub(x, One)), <<1001, 100000000>>)

(***************************************************************************)
(* QueueingNetwork.__init__.  Returns [ok, error, heap, net]: ok is FALSE  *)
(* when the constructor raises (no object is produced).  routing and names *)
(* are addresses of the caller's own objects, or None.                     *)
(***************************************************************************)
\* Lines 84-99: the asserts on the counts, the two lists and the names.
ArgAsserts(h, num_stations, num_customers, service_rates, num_servers, names) ==
    /\ num_stations > 0
    /\ num_customers > 0
    /\ Len(service_rates.data) = num_stations
    /\ Len(num_servers) = num_stations
    /\ names # None => Len(h[names].data) = num_stations

\* Lines 106-109: the asserts on a routing matrix that is a numpy array.
RoutingAsserts(h, num_stations, routing) ==
    /\ Len(h[routing].data) = num_stations
    /\ \A i \in 1..Len(h[routing].data) : Len(h[routing].data[i]) = num_stations
    /\ \A i \in 1..Len(h[routing].data) : AllCloseToOne(RSum(h[routing].data[i]))

\* The exception __init__ ends with, or "none".  A routing matrix that is a
\* Python list has no attribute shape (line 106).
InitError(h, num_stations, num_customers, service_rates, num_servers, routing, names) ==
    IF ~ArgAsserts(h, num_stations, num_customers, service_rates, num_servers, names)
    THEN "AssertionError"
    ELSE IF routing = None THEN "none"
    ELSE IF h[routing].kind # "ndarray" THEN "AttributeError"
    ELSE IF ~RoutingAsserts(h, num_stations, routing) THEN "AssertionError"
    ELSE "none"

\* The objects lines 89-113 create, placed above t: self.mu, self.m, the
\* default names (or the caller's list itself), the default P (or the
\* caller's array itself), self.e and the network.
NewNetwork(h, t, K, N, service_rates, num_servers, routing, names) ==
    [a \in {t + 1, t + 2, t + 5, t + 6}
           \cup (IF names = None THEN {t + 3} ELSE {})
           \cup (IF routing = None THEN {t + 4} ELSE {}) |->
        IF a = t + 1 THEN ArrayOf(service_rates)
        ELSE IF a = t + 2 THEN NdArray("int", AsIntData([i \in 1..K |-> Rat(num_servers[i])]))
        ELSE IF a = t + 3 THEN PyList([i \in 1..K |-> <<"Stacja", i>>])
        ELSE IF a = t + 4 THEN NdArray("float", UniformRouting(K))
        ELSE IF a = t + 5
        THEN NdArray("float", compute_visit_ratios(
                 IF routing = None THEN UniformRouting(K) ELSE h[routing].data, K))
        ELSE [kind |-> "net", K |-> K, N |-> N, mu |-> t + 1, m |-> t + 2,
              station_names |-> IF names = None THEN t + 3 ELSE names,
              P |-> IF routing = None THEN t + 4 ELSE routing,
              e |-> t + 5]]

QueueingNetwork(h, num_stations, num_customers, service_rates, num_servers, routing, names) ==
    IF InitError(h, num_stations, num_customers, service_rates, num_servers, routing, names) # "none"
    THEN [ok |-> FALSE, heap |-> h, net |-> None,
          error |-> InitError(h, num_stations, num_customers, service_rates, num_servers,
                              routing, names)]
    ELSE The({[ok |-> TRUE, error |-> "none",
               heap |-> Store(h, NewNetwork(h, t, num_stations, num_customers,
                                            service_rates, num_servers, routing, names)),
               net |-> t + 6] :
              t \in {Top(h)}})

\* The values a network holds, read through the heap.
NetValue(h, net) ==
    [K |-> h[net].K, N |-> h[net].N,
     mu |-> h[h[net].mu].data, mu_dtype |-> h[h[net].mu].dtype,
     m |-> h[h[net].m].data,
     station_names |-> h[h[net].station_names].data,
     P |-> h[h[net].P].data,
     e |-> h[h[net].e].data]

(***************************************************************************)
(* MVASolver.solve.  nv is the network's values (NetValue).  Level(nv, n)  *)
(* is the pair of rows R[n, :] and Q[n, :] of the two tables.              *)
(***************************************************************************)
\* The arriving customer's view of the queue taken with the wrong sign.
ResponseTimeSignError(nv, n, i, Qprev) ==
    RMul(RDiv(One, nv.mu[i]), RSub(One, Qprev[i]))

\* R[n, i], lines 101-117
ResponseTime(nv, n, i, Qprev) ==
    The({IF nv.m[i] = One
         THEN RMul(service_time, RAdd(One, Qprev[i]))
         ELSE IF RGt0(RMul(IF n < nv.m[i][1] THEN Rat(n) ELSE nv.m[i], nv.mu[i]))
         THEN RMul(service_time, RAdd(One, RDiv(Qprev[i], nv.m[i])))
         ELSE service_time :
         service_time \in {RDiv(One, nv.mu[i])}})

\* The station's throughput taken for the system's.
QueueLengthNoVisitRatio(X, e_i, R_i) == RMul(X, R_i)

\* Q[n, i], lines 133-134
QueueLength(X, e_i, R_i) ==
    LET X_i == RMul(X, e_i)
    IN  RMul(X_i, R_i)

\* The population left out of Little's law.
ThroughputWithoutPopulation(n, mean_R) ==
    The({IF RGt0(r) THEN RDiv(One, r) ELSE Zero : r \in {mean_R}})

\* X, lines 124-127 and 144-147
Throughput(n, mean_R) ==
    The({IF RGt0(r) THEN RDiv(Rat(n), r) ELSE Zero : r \in {mean_R}})

\* One population level, lines 99-134: from Q[n-1, :] to R[n, :] and Q[n, :].
LevelStep(nv, n, Qprev) ==
    The({The({[R |-> R, Q |-> Tuple([i \in 1..nv.K |-> QueueLength(X, nv.e[i], R[i])])] :
              X \in {Throughput(n, Dot(nv.e, R))}}) :
         R \in {The({Tuple([i \in 1..nv.K |-> ResponseTime(nv, n, i, q)]) : q \in {Qprev}})}})

RECURSIVE Level(_, _)
Level(nv, n) ==
    IF n = 0
    THEN [R |-> [i \in 1..nv.K |-> Zero], Q |-> [i \in 1..nv.K |-> Zero]]
    ELSE LevelStep(nv, n, Level(nv, n - 1).Q)

\* rho_i, lines 155-162
Utilization(nv, throughput, i) ==
    The({IF RGt0(max_rate) THEN PyMin(RDiv(RMul(throughput, nv.e[i]), max_rate), One)
         ELSE Zero :
         max_rate \in {RMul(nv.m[i], nv.mu[i])}})

\* Lines 137-174, from the rows at n = N.
Metrics(nv, final, mean_response_time, throughput) ==
    [kind |-> "metrics",
     mean_response_time |-> mean_response_time,
     mean_queue_length |-> RSum(final.Q),
     queue_lengths |-> final.Q,
     response_times |-> final.R,
     utilizations |-> Tuple([i \in 1..nv.K |-> Utilization(nv, throughput, i)]),
     throughput |-> throughput,
     total_servers |-> ISum(Tuple([i \in 1..nv.K |-> nv.m[i][1]]))]

solve(network) ==
    The({The({The({Metrics(nv, final, mean_response_time,
                           Throughput(nv.N, mean_response_time)) :
                   mean_response_time \in {Dot(nv.e, final.R)}}) :
              final \in {Level(nv, nv.N)}}) :
         nv \in {network}})

(***************************************************************************)
(* QueueingNetwork.update_parameters(kwargs).  kwargs is a record whose    *)
(* absent keys hold NoObject; a present key holds [dtype, data].  Every    *)
(* assignment builds a new array (np.array copies), placed above t.        *)
(***************************************************************************)
Updated(h, t, net, kwargs) ==
    [a \in {net} \cup (IF kwargs.num_servers # NoObject THEN {t + 1} ELSE {})
                 \cup (IF kwargs.service_rates # NoObject THEN {t + 2} ELSE {})
                 \cup (IF kwargs.routing_matrix # NoObject THEN {t + 3, t + 4} ELSE {}) |->
        IF a = net
        THEN [h[net] EXCEPT
                !.m = IF kwargs.num_servers # NoObject THEN t + 1 ELSE @,
                !.mu = IF kwargs.service_rates # NoObject THEN t + 2 ELSE @,
                !.P = IF kwargs.routing_matrix # NoObject THEN t + 3 ELSE @,
                !.e = IF kwargs.routing_matrix # NoObject THEN t + 4 ELSE @]
        ELSE IF a = t + 1 THEN NdArray("int", AsIntData(kwargs.num_servers.data))
        ELSE IF a = t + 2 THEN NdArray(kwargs.service_rates.dtype, kwargs.service_rates.data)
        ELSE IF a = t + 3 THEN NdArray("float", kwargs.routing_matrix.data)
        ELSE NdArray("float", compute_visit_ratios(kwargs.routing_matrix.data, h[net].K))]

update_parameters(h, net, kwargs) ==
    The({Store(x, Updated(x, Top(x), net, u)) : x \in {h}, u \in {kwargs}})

NoUpdates == [num_servers |-> NoObject, service_rates |-> NoObject,
              routing_matrix |-> NoObject]

(***************************************************************************)
(* copy.deepcopy(network): a new object whose arrays are new arrays.       *)
(* Returns [heap, net].                                                    *)
(***************************************************************************)
DeepCopySharing(h, net) == [heap |-> h, net |-> net]

\* The copies, placed above t.
Copies(h, t, net) ==
    [a \in (t + 1)..(t + 6) |->
        IF a = t + 1 THEN h[h[net].mu]
        ELSE IF a = t + 2 THEN h[h[net].m]
        ELSE IF a = t + 3 THEN h[h[net].station_names]
        ELSE IF a = t + 4 THEN h[h[net].P]
        ELSE IF a = t + 5 THEN h[h[net].e]
        ELSE [h[net] EXCEPT !.mu = t + 1, !.m = t + 2, !.station_names = t + 3,
                              !.P = t + 4, !.e = t + 5]]

deepcopy(h, net) ==
    The({[heap |-> Store(h, Copies(h, t, net)), net |-> t + 6] : t \in {Top(h)}})

(***************************************************************************)
(* QueueingOptimizer.__init__ and _prepare_optimization_space.  Indices of *)
(* the search vector are 1-based here (0-based in the source).  A missing  *)
(* service_rate_bounds is <<>>.                                            *)
(***************************************************************************)
\* The stations of a kind laid out from the last to the first.
SpaceOfReversed(kind, K, bound) ==
    [i \in 1..K |-> [var |-> kind, station |-> K + 1 - i, bound |-> bound[K + 1 - i]]]

\* One entry per station, in the order of the stations (lines 149-153, 157-165).
SpaceOf(kind, K, bound) == [i \in 1..K |-> [var |-> kind, station |-> i, bound |-> bound[i]]]

prepare_optimization_space(nv, optimize_vars, server_bounds, customer_bounds, service_rate_bounds) ==
    LET customers == IF "num_customers" \in optimize_vars
                     THEN <<[var |-> "num_customers", station |-> None,
                             bound |-> customer_bounds]>>
                     ELSE <<>>
        servers == IF "num_servers" \in optimize_vars
                   THEN SpaceOf("num_servers", nv.K, [i \in 1..nv.K |-> server_bounds])
                   ELSE <<>>
        rates == IF "service_rates" \in optimize_vars
                 THEN SpaceOf("service_rates", nv.K,
                        [i \in 1..nv.K |->
                            IF service_rate_bounds # <<>>
                            THEN service_rate_bounds
                            ELSE <<RMul(Norm(1, 2), nv.mu[i]), RMul(Rat(2), nv.mu[i])>>])
                 ELSE <<>>
        dims == customers \o servers \o rates
    IN  [bounds |-> [d \in 1..Len(dims) |-> dims[d].bound],
         integer_vars |-> {d \in 1..Len(dims) : dims[d].var # "service_rates"},
         var_map |-> [d \in 1..Len(dims) |-> <<dims[d].var, dims[d].station>>]]

\* {'r': 10.0, 'C_s': 1.0, 'C_N': 0.5}, used when cost_params is None.
DefaultCostParams == [r |-> Rat(10), C_s |-> One, C_N |-> Half]

QueueingOptimizer(nv, objective, optimize_vars, server_bounds, customer_bounds, service_rate_bounds, cost_params) ==
    LET space == prepare_optimization_space(nv, optimize_vars, server_bounds,
                     IF customer_bounds # <<>> THEN customer_bounds ELSE <<Rat(1), Rat(100)>>,
                     service_rate_bounds)
    IN  [kind |-> "optimizer",
         objective_name |-> objective,
         cost_params |-> IF cost_params # NoObject THEN cost_params ELSE DefaultCostParams,
         optimize_vars |-> optimize_vars,
         bounds |-> space.bounds,
         integer_vars |-> space.integer_vars,
         var_map |-> space.var_map]

(***************************************************************************)
(* QueueingOptimizer._vector_to_network.  Returns [heap, net].             *)
(***************************************************************************)
\* The loop of lines 188-201 from index idx on; st holds the copy's N and
\* the two arrays of the local dict `updates` (NoObject while absent).
DecodeEntry(var, x, copy, st) ==
    IF var[1] = "num_customers"
    THEN [st EXCEPT !.N = Trunc(x)]
    ELSE IF var[1] = "num_servers"
    THEN [st EXCEPT !.num_servers =
            StoreItem(IF @ = NoObject THEN NdArray("int", copy.m) ELSE @,
                      var[2], Rat(Trunc(x)))]
    ELSE [st EXCEPT !.service_rates =
            StoreItem(IF @ = NoObject THEN NdArray(copy.mu_dtype, copy.mu) ELSE @,
                      var[2], x)]

RECURSIVE DecodeLoop(_, _, _, _, _)
DecodeLoop(var_map, v, idx, copy, st) ==
    IF idx > Len(var_map) THEN st
    ELSE The({DecodeLoop(var_map, v, idx + 1, copy, next) :
              next \in {DecodeEntry(var_map[idx], v[idx], copy, st)}})

\* Lines 186-205 on the copy c.
DecodeOnto(c, opt, v) ==
    The({[heap |-> IF st.num_servers # NoObject \/ st.service_rates # NoObject
                   THEN update_parameters(
                            Store(c.heap, [a \in {c.net} |-> [c.heap[c.net] EXCEPT !.N = st.N]]),
                            c.net,
                            [NoUpdates EXCEPT !.num_servers = st.num_servers,
                                              !.service_rates = st.service_rates])
                   ELSE Store(c.heap, [a \in {c.net} |-> [c.heap[c.net] EXCEPT !.N = st.N]]),
          net |-> c.net] :
         st \in {The({DecodeLoop(opt.var_map, v, 1, copy,
                                 [N |-> copy.N, num_servers |-> NoObject,
                                  service_rates |-> NoObject]) :
                      copy \in {NetValue(c.heap, c.net)}})}})

vector_to_network(h, base, opt, v) ==
    The({DecodeOnto(c, opt, v) : c \in {deepcopy(h, base)}})

(***************************************************************************)
(* The inputs the callers draw.                                            *)
(***************************************************************************)
RECURSIVE Product(_)
\* The sequences whose i-th entry is drawn from sets[i].
Product(sets) ==
    The({IF s = <<>> THEN {<<>>}
         ELSE {Append(p, x) : p \in Product(SubSeq(s, 1, Len(s) - 1)), x \in s[Len(s)]} :
         s \in {sets}})

\* service_rates arguments: lists of Python ints, lists of Python floats.
IntRates == {Rat(0), Rat(1), Rat(2)}
FloatRates == {Norm(-1, 2), Norm(1, 2), Norm(3, 2)}
RateLists(len) ==
    {[dtype |-> "int", data |-> d] : d \in Product([i \in 1..len |-> IntRates])}
    \cup {[dtype |-> "float", data |-> d] : d \in Product([i \in 1..len |-> FloatRates])}

ServerLists(len) == Product([i \in 1..len |-> 0..MaxServers])

\* routing_matrix arguments; <<>> is None.  The last one has a row summing to 3/4.
RoutingArgs ==
    {<<>>,
     <<<<One>>>>,
     <<<<Half, Half>>, <<One, Zero>>>>,
     <<<<One, Zero>>, <<Zero, One>>>>,
     <<<<Half, Norm(1, 4)>>, <<One, Zero>>>>}

\* station_names arguments; <<>> is None.
NameArgs == {<<>>, <<<<"CPU", 1>>>>, <<<<"CPU", 1>>, <<"CPU", 2>>>>}

(***************************************************************************)
(* network = QueueingNetwork(K, N, rates, servers, routing, names)         *)
(***************************************************************************)
\* The caller's routing_matrix and station_names objects are placed first.
CallerObjects(t, routing, names) ==
    [a \in (IF routing = <<>> THEN {} ELSE {t + 1})
           \cup (IF names = <<>> THEN {} ELSE {t + 2}) |->
        IF a = t + 1 THEN NdArray("float", routing) ELSE PyList(names)]

Construct(K, N, rates, servers, routing, names) ==
    \E aR \in {IF routing = <<>> THEN None ELSE Top(heap) + 1},
       aN \in {IF names = <<>> THEN None ELSE Top(heap) + 2} :
        \E r \in {QueueingNetwork(Store(heap, CallerObjects(Top(heap), routing, names)),
                                  K, N, rates, servers, aR, aN)} :
            /\ IF r.ok
               THEN /\ heap' = r.heap
                    /\ base_network' = r.net
                    /\ arg_routing' = aR
                    /\ arg_names' = aN
                    /\ err' = "none"
               ELSE /\ err' = r.error
                    /\ UNCHANGED <<heap, base_network, arg_routing, arg_names>>
            /\ op' = "construct"
            /\ UNCHANGED <<candidate, optimizer, vector, metrics, solved, calls, phase>>

(***************************************************************************)
(* MVASolver(network).solve()                                              *)
(***************************************************************************)
\* The visit ratios multiplied in place (e *= R) where solve reads them.
SolveInPlace(net) ==
    \E nv \in {NetValue(heap, net)}, m \in {solve(NetValue(heap, net))} :
        /\ metrics' = m
        /\ heap' = [heap EXCEPT ![heap[net].e].data =
                        [i \in 1..nv.K |-> RMul(nv.e[i], m.response_times[i])]]
        /\ solved' = net
        /\ calls' = (IF solved = net THEN calls + 1 ELSE 1)
        /\ err' = "none"
        /\ op' = "solve"
        /\ UNCHANGED <<base_network, candidate, arg_routing, arg_names, optimizer,
                       vector, phase>>

Solve(net) ==
    /\ metrics' = solve(NetValue(heap, net))
    /\ solved' = net
    /\ calls' = (IF solved = net THEN calls + 1 ELSE 1)
    /\ err' = "none"
    /\ op' = "solve"
    /\ UNCHANGED <<heap, base_network, candidate, arg_routing, arg_names, optimizer,
                   vector, phase>>

(***************************************************************************)
(* optimizer = QueueingOptimizer(network, optimize_vars = ..., ...)        *)
(***************************************************************************)
OptimizeVars == (SUBSET {"num_customers", "num_servers", "service_rates"}) \ {{}}

ServiceRateBounds == {<<>>, <<Half, Rat(2)>>}

NewOptimizer(objective, optimize_vars, customer_bounds, service_rate_bounds, cost_params) ==
    /\ optimizer' = QueueingOptimizer(NetValue(heap, base_network), objective, optimize_vars,
                        <<Rat(1), Rat(MaxServers)>>, customer_bounds, service_rate_bounds,
                        cost_params)
    /\ err' = "none"
    /\ op' = "new_optimizer"
    /\ UNCHANGED <<heap, base_network, candidate, arg_routing, arg_names, vector,
                   metrics, solved, calls, phase>>

\* The vectors of the search space the model draws: the two ends of an
\* integer dimension, the lower end of a continuous one and the point a
\* third of the way up.

DimValues(opt, d) ==
    LET lo == opt.bounds[d][1]
        hi == opt.bounds[d][2]
    IN  IF d \in opt.integer_vars
        THEN {lo, hi}
        ELSE {lo, RAdd(lo, RDiv(RSub(hi, lo), Rat(3)))}

Vectors(opt) == Product([d \in 1..Len(opt.bounds) |-> DimValues(opt, d)])

VARIABLES
    run,            \* the locals of optimize(): baseline and the search's best so far
    result          \* what optimize() returned, NoObject when it returned nothing

runvars == <<run, result>>

NoRun == [kind |-> "none"]

(***************************************************************************)
(* optimizer._vector_to_network(v)                                         *)
(***************************************************************************)
\* The network an earlier call returned is dropped before the call.
DecodeInto(v) ==
    \E r \in {vector_to_network(Collect(heap, {base_network, arg_routing, arg_names}),
                                 base_network, optimizer, v)} :
        /\ candidate' = r.net
        /\ heap' = Collect(r.heap, {base_network, r.net, arg_routing, arg_names})
        /\ vector' = v

\* The caller keeps no metrics of an earlier network and no result of an
\* earlier optimize() across the call.
Decode(v) ==
    /\ DecodeInto(v)
    /\ metrics' = NoObject
    /\ solved' = None
    /\ calls' = 0
    /\ err' = "none"
    /\ run' = NoRun
    /\ result' = NoObject
    /\ op' = "decode"
    /\ UNCHANGED <<base_network, arg_routing, arg_names, optimizer, phase>>

(***************************************************************************)
(* optimizer.optimize(): the baseline is solved and scored, the search     *)
(* calls _objective_wrapper on vectors of the space and keeps the first    *)
(* vector of the least value, that vector is decoded and solved again, and *)
(* the result is put together.  The search is that of a population of one  *)
(* firefly: every evaluation is one call of the wrapper, compared with the *)
(* best so far.  Which vectors it asks for is left open here; it asks for  *)
(* at least one and at most MaxEvals.                                      *)
(***************************************************************************)
MaxEvals == 2

\* np.zeros((N + 1, K)) and R[N, :] in solve, for a population below zero.
SolveError(nv) ==
    IF nv.N + 1 < 0 THEN "ValueError"
    ELSE IF nv.N + 1 = 0 THEN "IndexError"
    ELSE "none"

\* np.var: the mean of the squared distances from the mean.
Var(xs) ==
    The({RDiv(RSum(Tuple([i \in 1..Len(xs) |-> RMul(RSub(xs[i], mean), RSub(xs[i], mean))])),
              Rat(Len(xs))) :
         mean \in {RDiv(RSum(xs), Rat(Len(xs)))}})

\* metrics.get(key, 0): solve's record has no 'total_service_rate' and no
\* 'num_customers' key.
MetricsGet(m, key) == IF key \in DOMAIN m THEN m[key] ELSE Zero

\* The cost_params a caller gives; NoObject is None.
CostParams == {NoObject, [r |-> Rat(20), C_s |-> Rat(2), C_N |-> One]}

\* ObjectiveFunctions.profit(metrics, cost_params)
profit(m, cost_params) ==
    LET cp == IF cost_params = NoObject THEN DefaultCostParams ELSE cost_params
        X == m.throughput
        total_mu == MetricsGet(m, "total_service_rate")
        N == MetricsGet(m, "num_customers")
        profit_value == RSub(RSub(RMul(cp.r, X), RMul(cp.C_s, total_mu)), RMul(cp.C_N, N))
    IN  RNeg(profit_value)

\* np.percentile(samples, percentile): linear interpolation between the two
\* order statistics around (n - 1) * percentile / 100; NaN if a sample is NaN.
np_percentile(samples, percentile) ==
    IF \E i \in 1..Len(samples) : IsNaN(samples[i]) THEN NaN
    ELSE LET a == SortSeq(samples, RLt)
             h == RMul(Rat(Len(a) - 1), RDiv(percentile, Rat(100)))
             lo == Trunc(h)
             hi == IF lo + 2 <= Len(a) THEN lo + 2 ELSE Len(a)
         IN  RAdd(a[lo + 1], RMul(RSub(h, Rat(lo)), RSub(a[hi], a[lo + 1])))

\* ObjectiveFunctions.response_time_percentile(metrics, percentile): the samples
\* are metrics['response_time_samples'] if the key is there, and else
\* metrics.get('response_times', []).
response_time_percentile(m, percentile) ==
    LET samples == IF "response_time_samples" \in DOMAIN m THEN m.response_time_samples
                   ELSE IF "response_times" \in DOMAIN m THEN m.response_times
                   ELSE <<>>
    IN  IF Len(samples) = 0 THEN PosInf ELSE np_percentile(samples, percentile)

Objectives == {"mean_response_time", "throughput", "utilization_variance", "profit"}

\* get_objective_function(objective_name) applied to a metrics record: the
\* catalog's function called with the metrics alone, profit's cost_params
\* left at None.
objective_function_raw(objective_name, m) ==
    IF objective_name = "mean_response_time" THEN m.mean_response_time
    ELSE IF objective_name = "throughput" THEN RNeg(m.throughput)
    ELSE IF objective_name = "profit" THEN profit(m, NoObject)
    ELSE Var(m.utilizations)

\* 1e10 is beyond the integers of the model.  The value returned for a failed
\* evaluation is written as 10000: like 1e10 it lies above every finite value
\* an objective takes on the networks drawn here, and the search only compares it.
FailedEvaluation == Rat(10000)

\* Line 278: baseline_objective = self.objective_function_raw(baseline_metrics)
BaselineObjective(opt, m) == objective_function_raw(opt.objective_name, m)

\* _objective_wrapper's value for a decoded network: any exception gives the
\* penalty; profit is called with self.cost_params (lines 236-241).
WrapperValue(opt, nv) ==
    IF SolveError(nv) # "none" THEN FailedEvaluation
    ELSE IF opt.objective_name = "profit" THEN profit(solve(nv), opt.cost_params)
    ELSE objective_function_raw(opt.objective_name, solve(nv))

\* The search's best so far after one more evaluation: replaced on a strictly
\* smaller value only.
SearchBest(r, v, value) ==
    IF r.evaluations = 0 \/ RLt(value, r.best_value)
    THEN [r EXCEPT !.best_vector = v, !.best_value = value,
                   !.evaluations = r.evaluations + 1]
    ELSE [r EXCEPT !.evaluations = r.evaluations + 1]

\* ((baseline_objective - best_value) / baseline_objective) * 100: best_value is
\* a numpy float, so a division by zero gives inf or NaN and raises nothing.
ImprovementPercent(baseline_objective, value) ==
    RMul(RDiv(RSub(baseline_objective, value), baseline_objective), Rat(100))

\* The dictionary optimize() returns.
Result(r, optimized_metrics) ==
    [kind |-> "result",
     baseline |-> [metrics |-> r.baseline_metrics, objective_value |-> r.baseline_objective],
     optimized |-> [metrics |-> optimized_metrics, objective_value |-> r.best_value,
                    solution_vector |-> r.best_vector],
     improvement |-> [absolute |-> RSub(r.baseline_objective, r.best_value),
                      percent |-> ImprovementPercent(r.baseline_objective, r.best_value)]]

OptimizeBegin ==
    /\ optimizer # NoObject
    /\ phase = "idle"
    /\ op # "optimize_end"
    /\ \E m \in {solve(NetValue(heap, base_network))} :
        /\ metrics' = m
        /\ run' = [kind |-> "run",
                   baseline_metrics |-> m,
                   baseline_objective |-> BaselineObjective(optimizer, m),
                   best_vector |-> <<>>,
                   best_value |-> NaN,
                   evaluations |-> 0]
    /\ result' = NoObject
    /\ solved' = base_network
    /\ calls' = 1
    /\ phase' = "search"
    /\ err' = "none"
    /\ op' = "optimize_begin"
    /\ UNCHANGED <<heap, base_network, candidate, arg_routing, arg_names, optimizer, vector>>

ObjectiveWrapper(v) ==
    /\ run.evaluations < MaxEvals
    /\ DecodeInto(v)
    /\ \E nv \in {NetValue(heap', candidate')} :
        /\ IF SolveError(nv) # "none"
           THEN metrics' = NoObject /\ solved' = None /\ calls' = 0
           ELSE metrics' = solve(nv) /\ solved' = candidate' /\ calls' = 1
        /\ run' = SearchBest(run, v, WrapperValue(optimizer, nv))
    /\ err' = "none"
    /\ op' = "objective"
    /\ UNCHANGED <<base_network, arg_routing, arg_names, optimizer, phase, result>>

\* The decode and the solve of the best vector are outside any try.
OptimizeEnd ==
    /\ run.evaluations >= 1
    /\ DecodeInto(run.best_vector)
    /\ \E nv \in {NetValue(heap', candidate')} :
        IF SolveError(nv) # "none"
        THEN /\ metrics' = NoObject /\ solved' = None /\ calls' = 0
             /\ result' = NoObject
             /\ err' = SolveError(nv)
        ELSE \E m \in {solve(nv)} :
                /\ metrics' = m /\ solved' = candidate' /\ calls' = 1
                /\ result' = Result(run, m)
                /\ err' = "none"
    /\ phase' = "idle"
    /\ op' = "optimize_end"
    /\ UNCHANGED <<base_network, arg_routing, arg_names, optimizer, run>>

(***************************************************************************)
(* FireflyAlgorithm (algorithms/firefly.py).  Positions and intensities    *)
(* are exact rationals.  The instance has alpha = 1, beta_0 = 1 and        *)
(* gamma = 0, so that beta(r) = beta_0 * exp(0) = 1 at every distance, and *)
(* every random number drawn is a multiple of 1/Grid.  Intensities are     *)
(* counted in units of 1e7: the objective returns 1e7 or 2e7 or raises,    *)
(* and the penalty 1e10 is 1000 units.                                     *)
(***************************************************************************)
NFireflies == 2
MaxIter == 2
Grid == 4
Penalty == 1000

VARIABLES
    fa,             \* the instance: bounds, integer_vars, n_fireflies, max_iterations
    fireflies,      \* the population: one position per firefly
    intensities,    \* the intensity of every firefly at its last evaluation
    best_solution,  \* optimize()'s local best_solution
    best_value,     \* optimize()'s local best_value
    iteration,      \* the loop variable of optimize()
    sweep,          \* <<i, j>>, the pair the sweep is at
    history,        \* self.history
    returned,       \* what the optimize() calls made so far returned, in order
    results,        \* what the objective did at the last evaluation of the population
    evaluations,    \* how many times the objective was called
    pc              \* where optimize() is

favars == <<fa, fireflies, intensities, best_solution, best_value, iteration, sweep,
            history, returned, results, evaluations, pc>>

alpha == One
beta_0 == One

\* np.random.rand(): the numbers the model draws from [0, 1).
Rand == {Norm(k, Grid) : k \in 0..(Grid - 1)}

\* One draw per dimension.
RandVectors(D) == Product([d \in 1..D |-> Rand])

Floor(a) == a[1] \div a[2]

\* np.round: to the nearest integer, a tie to the even one.
np_round(a) ==
    LET f == Floor(a)
        frac == RSub(a, Rat(f))
    IN  IF RLt(frac, Half) THEN Rat(f)
        ELSE IF RLt(Half, frac) THEN Rat(f + 1)
        ELSE IF f % 2 = 0 THEN Rat(f) ELSE Rat(f + 1)

\* np.clip(x, lo, hi) = minimum(maximum(x, lo), hi)
np_clip(x, lo, hi) ==
    LET up == IF RLt(x, lo) THEN lo ELSE x
    IN  IF RLt(hi, up) THEN hi ELSE up

lower_bounds(f) == [d \in 1..Len(f.bounds) |-> f.bounds[d][1]]
upper_bounds(f) == [d \in 1..Len(f.bounds) |-> f.bounds[d][2]]

\* for idx in self.integer_vars: x[idx] = np.round(x[idx])
RoundIntegerVars(f, x) ==
    [d \in 1..Len(x) |-> IF d \in f.integer_vars THEN np_round(x[d]) ELSE x[d]]

ClipToBounds(f, x) ==
    [d \in 1..Len(x) |-> np_clip(x[d], lower_bounds(f)[d], upper_bounds(f)[d])]

\* _initialize_fireflies, one row: uniform in [lower, upper), then rounded.
initialize_firefly(f, u) ==
    RoundIntegerVars(f,
        [d \in 1..Len(f.bounds) |->
            RAdd(lower_bounds(f)[d],
                 RMul(RSub(upper_bounds(f)[d], lower_bounds(f)[d]), u[d]))])

\* _evaluate_fireflies: an evaluation that raises scores the penalty.
\* An evaluation that raises scores nothing: the entry np.zeros gave stays.
EvaluateRaisedAsZero(outcomes) ==
    [k \in DOMAIN outcomes |-> IF outcomes[k].raised THEN Zero ELSE outcomes[k].value]

evaluate_fireflies(outcomes) ==
    [k \in DOMAIN outcomes |-> IF outcomes[k].raised THEN Rat(Penalty) ELSE outcomes[k].value]

\* _attractiveness: beta_0 * exp(-gamma * distance^2) with gamma = 0.
attractiveness(distance2) == beta_0

\* alpha * (rand - 0.5)
random_step(u) == [d \in DOMAIN u |-> RMul(alpha, RSub(u[d], Half))]

\* The new position as line 266 has it, neither clipped nor rounded.
MoveUnclipped(f, firefly_i, firefly_j, beta, u) ==
    [d \in 1..Len(firefly_i) |->
        RAdd(RAdd(firefly_i[d], RMul(beta, RSub(firefly_j[d], firefly_i[d]))),
             random_step(u)[d])]

\* _move_firefly
move_firefly(f, firefly_i, firefly_j, beta, u) ==
    LET new_position ==
            [d \in 1..Len(firefly_i) |->
                RAdd(RAdd(firefly_i[d], RMul(beta, RSub(firefly_j[d], firefly_i[d]))),
                     random_step(u)[d])]
    IN  RoundIntegerVars(f, ClipToBounds(f, new_position))

\* np.argmin: the first index of the smallest entry.
\* The first index, whatever the values.
FirstIndex(xs) == 1

argmin(xs) ==
    CHOOSE k \in DOMAIN xs :
        /\ \A l \in DOMAIN xs : RLe(xs[k], xs[l])
        /\ \A l \in 1..(k - 1) : RLt(xs[k], xs[l])

RECURSIVE np_max(_)
np_max(xs) ==
    IF Len(xs) = 1 THEN xs[1]
    ELSE LET rest == np_max(SubSeq(xs, 1, Len(xs) - 1))
         IN  IF RLt(rest, xs[Len(xs)]) THEN xs[Len(xs)] ELSE rest

np_mean(xs) == RDiv(RSum(xs), Rat(Len(xs)))

SquaredDistance(x, y) == RSum([d \in DOMAIN x |-> RMul(RSub(x[d], y[d]), RSub(x[d], y[d]))])

\* The population's best of the round replaces the best so far, better or not.
UpdateBestAlways(best, current) == current

\* Lines 362-364: the best so far is replaced on a strict improvement only.
UpdateBest(best, current) ==
    IF RLt(current.value, best.value) THEN current ELSE best

\* Only the best value is recorded.
AppendBestValueOnly(h, value, scores, solution) ==
    [h EXCEPT !.best_values = Append(@, value)]

\* Lines 367-370
AppendHistory(h, value, scores, solution) ==
    [best_values |-> Append(h.best_values, value),
     mean_values |-> Append(h.mean_values, np_mean(scores)),
     worst_values |-> Append(h.worst_values, np_max(scores)),
     best_solutions |-> Append(h.best_solutions, solution)]

EmptyHistory ==
    [best_values |-> <<>>, mean_values |-> <<>>, worst_values |-> <<>>,
     best_solutions |-> <<>>]

\* Line 386: return best_solution, best_value, self.history.  The third
\* component is the instance's own dict, not a copy; 'seen' is what the dict
\* held when the call returned.
Returned(solution, value, h) ==
    [best_solution |-> solution, best_value |-> value, history |-> "self.history", seen |-> h]

\* What one call of the objective does: it returns a value or raises.
ObjectiveValues == {Rat(1), Rat(2)}
Raised == [raised |-> TRUE, value |-> Zero]
Outcomes == {[raised |-> FALSE, value |-> v] : v \in ObjectiveValues} \cup {Raised}

\* The instances: an integer dimension with integer bounds, one with bounds
\* that are no integers, a continuous dimension, and two dimensions of which
\* the first is an integer one.
Problems ==
    {[bounds |-> <<<<Rat(1), Rat(3)>>>>, integer_vars |-> {1}],
     [bounds |-> <<<<Norm(5, 4), Norm(11, 4)>>>>, integer_vars |-> {1}],
     [bounds |-> <<<<Zero, One>>>>, integer_vars |-> {}],
     [bounds |-> <<<<Rat(1), Rat(2)>>, <<Zero, Half>>>>, integer_vars |-> {1}]}

n_dimensions == Len(fa.bounds)
n_fireflies == fa.n_fireflies

\* What the calls of one evaluation of the population do.
OutcomeVectors == Product([k \in 1..n_fireflies |-> Outcomes])

\* Lines 308: fireflies = self._initialize_fireflies()
InitializeFireflies ==
    /\ pc = "new"
    /\ \E u \in Product([k \in 1..n_fireflies |-> RandVectors(n_dimensions)]) :
          fireflies' = [k \in 1..n_fireflies |-> initialize_firefly(fa, u[k])]
    /\ pc' = "initialized"
    /\ UNCHANGED <<fa, intensities, best_solution, best_value, iteration, sweep, history,
                   returned, results, evaluations>>

\* Lines 309-314: the first evaluation and the first best.
EvaluateInitial ==
    /\ pc = "initialized"
    /\ \E outcomes \in OutcomeVectors :
          LET scores == evaluate_fireflies(outcomes)
              best_idx == argmin(scores)
          IN  /\ intensities' = scores
              /\ best_solution' = fireflies[best_idx]
              /\ best_value' = scores[best_idx]
              /\ results' = outcomes
              /\ evaluations' = evaluations + Len(outcomes)
    /\ iteration' = 0
    /\ sweep' = <<1, 1>>
    /\ pc' = (IF fa.max_iterations > 0 THEN "sweep" ELSE "done")
    /\ returned' = (IF fa.max_iterations > 0 THEN returned
                    ELSE Append(returned, Returned(best_solution', best_value', history)))
    /\ UNCHANGED <<fa, fireflies, history>>

NextPair ==
    IF sweep[2] < n_fireflies THEN <<sweep[1], sweep[2] + 1>>
    ELSE <<sweep[1] + 1, 1>>

AfterPair ==
    /\ sweep' = NextPair
    /\ pc' = (IF NextPair[1] > n_fireflies THEN "perturb" ELSE "sweep")

\* A firefly of the same intensity attracts as well.
BrighterOrEqual(intensity_j, intensity_i) == RLe(intensity_j, intensity_i)

\* Line 330: intensities[j] < intensities[i]
Brighter(intensity_j, intensity_i) == RLt(intensity_j, intensity_i)

\* Lines 330-341: firefly j is brighter, firefly i moves toward it in place.
Move ==
    /\ pc = "sweep"
    /\ Brighter(intensities[sweep[2]], intensities[sweep[1]])
    /\ \E u \in RandVectors(n_dimensions) :
          LET i == sweep[1]
              j == sweep[2]
              beta == attractiveness(SquaredDistance(fireflies[i], fireflies[j]))
          IN  fireflies' = [fireflies EXCEPT ![i] = move_firefly(fa, fireflies[i], fireflies[j], beta, u)]
    /\ AfterPair
    /\ UNCHANGED <<fa, intensities, best_solution, best_value, iteration, history,
                   returned, results, evaluations>>

\* Line 330, the condition false.
Stay ==
    /\ pc = "sweep"
    /\ ~Brighter(intensities[sweep[2]], intensities[sweep[1]])
    /\ AfterPair
    /\ UNCHANGED <<fa, fireflies, intensities, best_solution, best_value, iteration, history,
                   returned, results, evaluations>>

\* Lines 344-353: the random walk of the brightest firefly.
PerturbBest ==
    /\ pc = "perturb"
    /\ \E u \in RandVectors(n_dimensions) :
          LET best_idx == argmin(intensities)
              random_walk == random_step(u)
              walked == [d \in 1..n_dimensions |-> RAdd(fireflies[best_idx][d], random_walk[d])]
          IN  fireflies' = [fireflies EXCEPT ![best_idx] = RoundIntegerVars(fa, ClipToBounds(fa, walked))]
    /\ pc' = "evaluate"
    /\ UNCHANGED <<fa, intensities, best_solution, best_value, iteration, sweep, history,
                   returned, results, evaluations>>

\* Lines 356-370: the evaluation, the best so far and the history of the round.
EndIteration ==
    /\ pc = "evaluate"
    /\ \E outcomes \in OutcomeVectors :
          LET scores == evaluate_fireflies(outcomes)
              current_best_idx == argmin(scores)
              best == UpdateBest([value |-> best_value, solution |-> best_solution],
                                 [value |-> scores[current_best_idx],
                                  solution |-> fireflies[current_best_idx]])
          IN  /\ intensities' = scores
              /\ best_value' = best.value
              /\ best_solution' = best.solution
              /\ history' = AppendHistory(history, best.value, scores, best.solution)
              /\ results' = outcomes
              /\ evaluations' = evaluations + Len(outcomes)
    /\ iteration' = iteration + 1
    /\ sweep' = <<1, 1>>
    /\ pc' = (IF iteration + 1 < fa.max_iterations THEN "sweep" ELSE "done")
    /\ returned' = (IF iteration + 1 < fa.max_iterations THEN returned
                    ELSE Append(returned, Returned(best_solution', best_value', history')))
    /\ UNCHANGED <<fa, fireflies>>

(***************************************************************************)
(* A caller of the data model: it takes configuration snapshots, updates   *)
(* the network, builds a second network from the arguments of the first,   *)
(* writes into objects it holds a reference to, and feeds a snapshot back  *)
(* into the constructor.                                                   *)
(***************************************************************************)
MaxSteps == 3

VARIABLES
    snapshot,        \* the dict the last get_configuration() returned, or NoObject
    second_network,  \* a second QueueingNetwork of the caller, or None
    kwargs,          \* the keyword arguments of the last update_parameters call
    steps            \* how many operations the caller made on the network it built

datavars == <<snapshot, second_network, kwargs, steps>>

\* Lines 151-159.  tolist() builds new lists, which the dict alone holds;
\* 'station_names' is the network's own list.
get_configuration(h, net) ==
    [kind |-> "config",
     num_stations |-> h[net].K,
     num_customers |-> h[net].N,
     station_names |-> h[net].station_names,
     service_rates |-> [dtype |-> h[h[net].mu].dtype, data |-> h[h[net].mu].data],
     num_servers |-> h[h[net].m].data,
     routing_matrix |-> h[h[net].P].data,
     visit_ratios |-> h[h[net].e].data]

\* What a snapshot shows when it is read.
SnapshotValue(h, s) == [s EXCEPT !.station_names = h[s.station_names].data]

\* obj[0] = x on a list or a one-dimensional array.
StoreFirst(h, a, x) == [h EXCEPT ![a].data[1] = x]

\* obj[0, 0] = x on a matrix.
StoreCorner(h, a, x) == [h EXCEPT ![a].data[1][1] = x]

Marker == Rat(7)
MarkerName == <<"renamed", 0>>

\* The objects the caller can reach.
DataRoots ==
    {base_network, second_network, arg_routing, arg_names}
    \cup (IF snapshot = NoObject THEN {} ELSE {snapshot.station_names})

\* config = network.get_configuration()
GetConfiguration ==
    /\ snapshot' = get_configuration(heap, base_network)
    /\ op' = "get_configuration"
    /\ err' = "none"
    /\ UNCHANGED <<heap, second_network, kwargs>>

\* config[key][0] = ...
MutateSnapshot(key) ==
    /\ snapshot # NoObject
    /\ IF key = "station_names"
       THEN /\ heap' = StoreFirst(heap, snapshot.station_names, MarkerName)
            /\ UNCHANGED snapshot
       ELSE /\ snapshot' = [snapshot EXCEPT !.service_rates.data[1] = Marker]
            /\ UNCHANGED heap
    /\ op' = "mutate_snapshot"
    /\ err' = "none"
    /\ UNCHANGED <<second_network, kwargs>>

\* routing_matrix[0, 0] = ... or station_names[0] = ... on the caller's own
\* argument objects.
MutateArgument(which) ==
    /\ IF which = "routing_matrix"
       THEN arg_routing # None /\ heap' = StoreCorner(heap, arg_routing, Marker)
       ELSE arg_names # None /\ heap' = StoreFirst(heap, arg_names, MarkerName)
    /\ op' = "mutate_argument"
    /\ err' = "none"
    /\ UNCHANGED <<snapshot, second_network, kwargs>>

\* network.P[0, 0] = ... and the like on the network built first.
MutateNetwork(field) ==
    /\ heap' = (IF field = "P" THEN StoreCorner(heap, heap[base_network].P, Marker)
                ELSE IF field = "mu" THEN StoreFirst(heap, heap[base_network].mu, Marker)
                ELSE StoreFirst(heap, heap[base_network].station_names, MarkerName))
    /\ op' = "mutate_network"
    /\ err' = "none"
    /\ UNCHANGED <<snapshot, second_network, kwargs>>

\* network.update_parameters(**kw); the arrays it replaced are dropped.
UpdateParameters(kw) ==
    /\ heap' = Collect(update_parameters(heap, base_network, kw), DataRoots)
    /\ kwargs' = kw
    /\ op' = "update"
    /\ err' = "none"
    /\ UNCHANGED <<snapshot, second_network>>

\* second = QueueingNetwork(K, N, rates, servers, routing_matrix, station_names)
\* with the routing_matrix and station_names objects the first was built from.
ConstructSecond ==
    /\ second_network = None
    /\ \E nv \in {NetValue(heap, base_network)} :
          \E r \in {QueueingNetwork(heap, nv.K, nv.N, [dtype |-> nv.mu_dtype, data |-> nv.mu],
                                    [i \in 1..Len(nv.m) |-> nv.m[i][1]],
                                    arg_routing, arg_names)} :
              /\ heap' = r.heap
              /\ second_network' = r.net
              /\ err' = r.error
    /\ op' = "construct_second"
    /\ UNCHANGED <<snapshot, kwargs>>

\* rebuilt = QueueingNetwork(config['num_stations'], config['num_customers'],
\*     config['service_rates'], config['num_servers'], config['routing_matrix'],
\*     config['station_names']): the routing matrix of a snapshot is a list.
RoundTrip ==
    /\ snapshot # NoObject
    /\ \E t \in {Top(heap)} :
          \E r \in {QueueingNetwork(Store(heap, [a \in {t + 1} |-> PyList(snapshot.routing_matrix)]),
                                    snapshot.num_stations, snapshot.num_customers,
                                    snapshot.service_rates,
                                    [i \in 1..Len(snapshot.num_servers) |-> snapshot.num_servers[i][1]],
                                    t + 1, snapshot.station_names)} :
              /\ heap' = (IF r.ok THEN r.heap ELSE heap)
              /\ second_network' = (IF r.ok THEN r.net ELSE second_network)
              /\ err' = r.error
    /\ op' = "round_trip"
    /\ UNCHANGED <<snapshot, kwargs>>

\* The routing matrices the caller builds networks from; <<>> is None.  Every
\* row of the third sums to 1 and it has a negative entry; a row of the
\* fourth sums to 3/4; the last has the wrong shape for two stations.
DataRoutingArgs(K) ==
    IF K = 1 THEN {<<>>, <<<<One>>>>}
    ELSE {<<>>,
          <<<<Half, Half>>, <<One, Zero>>>>,
          <<<<Rat(2), Rat(-1)>>, <<One, Zero>>>>,
          <<<<Half, Norm(1, 4)>>, <<One, Zero>>>>,
          <<<<One>>>>}

\* The keyword arguments the caller updates a network of K stations with.
Given(dtype, data) == [dtype |-> dtype, data |-> data]

UpdateArgs(K) ==
    {[NoUpdates EXCEPT !.num_servers = Given("int", [i \in 1..K |-> Rat(2)])],
     [NoUpdates EXCEPT !.service_rates = Given("float", [i \in 1..K |-> Norm(3, 2)])],
     [NoUpdates EXCEPT !.num_servers = Given("int", [i \in 1..K |-> Rat(2)]),
                       !.service_rates = Given("float", [i \in 1..K |-> Norm(3, 2)])],
     [NoUpdates EXCEPT !.routing_matrix =
         Given("float", IF K = 1 THEN <<<<One>>>> ELSE <<<<Zero, One>>, <<One, Zero>>>>)],
     [NoUpdates EXCEPT !.routing_matrix =
         Given("float", IF K = 1 THEN <<<<Half>>>> ELSE <<<<Half, Norm(1, 4)>>, <<One, Zero>>>>)],
     [NoUpdates EXCEPT !.num_servers = Given("int", [i \in 1..K |-> Zero])],
     [NoUpdates EXCEPT !.service_rates = Given("float", [i \in 1..(K + 1) |-> One])]}

(***************************************************************************)
(* Specifications.                                                         *)
(***************************************************************************)
vars == <<netvars, favars, datavars, runvars>>

InitNet ==
    /\ heap = <<>>
    /\ base_network = None
    /\ candidate = None
    /\ arg_routing = None
    /\ arg_names = None
    /\ optimizer = NoObject
    /\ vector = <<>>
    /\ metrics = NoObject
    /\ solved = None
    /\ calls = 0
    /\ err = "none"
    /\ phase = "idle"
    /\ op = "none"

\* No FireflyAlgorithm instance.
NoFirefly ==
    /\ fa = NoObject
    /\ fireflies = <<>>
    /\ intensities = <<>>
    /\ best_solution = <<>>
    /\ best_value = Zero
    /\ iteration = 0
    /\ sweep = <<1, 1>>
    /\ history = EmptyHistory
    /\ returned = <<>>
    /\ results = <<>>
    /\ evaluations = 0
    /\ pc = "none"

\* The caller has taken no snapshot and built no second network.
NoCaller ==
    /\ snapshot = NoObject
    /\ second_network = None
    /\ kwargs = NoUpdates
    /\ steps = 0

\* optimize() has not been called.
NoOptimize ==
    /\ run = NoRun
    /\ result = NoObject

Init == InitNet /\ NoFirefly /\ NoCaller /\ NoOptimize

\* The network and the solver, over every argument list of the bounds.
ConstructAny ==
    /\ op = "none"
    /\ \E K \in {0} \cup StationCounts, N \in 0..MaxN, lr \in StationCounts, ls \in StationCounts :
          \E rates \in RateLists(lr), servers \in ServerLists(ls) :
              \E routing \in RoutingArgs, names \in NameArgs :
                  Construct(K, N, rates, servers, routing, names)
    /\ UNCHANGED <<favars, datavars, runvars>>

SolveBase ==
    /\ base_network # None
    /\ phase = "idle"
    /\ solved = base_network => calls < MaxCalls
    /\ Solve(base_network)
    /\ UNCHANGED <<favars, datavars, runvars>>

NextNet == ConstructAny \/ SolveBase

SpecNet == Init /\ [][NextNet]_vars

\* The optimizer over a few valid baselines: integer or float rates, and
\* either single servers with the default routing and names, or MaxServers
\* servers a station with the caller's own routing and names.
BaseRates(K) ==
    {[dtype |-> "int", data |-> SubSeq(<<Rat(1), Rat(2)>>, 1, K)],
     [dtype |-> "float", data |-> SubSeq(<<Half, Rat(2)>>, 1, K)]}

BaseServers(K, own) == [i \in 1..K |-> IF own THEN MaxServers ELSE 1]

BaseRouting(K) == IF K = 1 THEN <<<<One>>>> ELSE <<<<Half, Half>>, <<One, Zero>>>>

BaseNames(K) == SubSeq(<<<<"CPU", 1>>, <<"CPU", 2>>>>, 1, K)

ConstructBase ==
    /\ op = "none"
    /\ \E K \in StationCounts :
          \E rates \in BaseRates(K), own \in BOOLEAN :
              Construct(K, MaxN, rates, BaseServers(K, own),
                        IF own THEN BaseRouting(K) ELSE <<>>,
                        IF own THEN BaseNames(K) ELSE <<>>)
    /\ UNCHANGED <<favars, datavars, runvars>>

NewOptimizerAny ==
    /\ base_network # None
    /\ optimizer = NoObject
    /\ \E optimize_vars \in OptimizeVars, service_rate_bounds \in ServiceRateBounds :
          NewOptimizer("mean_response_time", optimize_vars, <<Rat(1), Rat(MaxN)>>,
                       service_rate_bounds, NoObject)
    /\ UNCHANGED <<favars, datavars, runvars>>

DecodeAny ==
    /\ optimizer # NoObject
    /\ phase = "idle"
    /\ \E v \in Vectors(optimizer) : Decode(v)
    /\ UNCHANGED <<favars, datavars>>

SolveCandidate ==
    /\ candidate # None
    /\ phase = "idle"
    /\ solved = candidate => calls < MaxCalls
    /\ Solve(candidate)
    /\ UNCHANGED <<favars, datavars, runvars>>

ObjectiveAny ==
    /\ phase = "search"
    /\ \E v \in Vectors(optimizer) : ObjectiveWrapper(v)
    /\ UNCHANGED <<favars, datavars>>

OptimizeEndAny ==
    /\ phase = "search"
    /\ OptimizeEnd
    /\ UNCHANGED <<favars, datavars>>

Next ==
    \/ ConstructBase
    \/ NewOptimizerAny
    \/ DecodeAny
    \/ SolveBase
    \/ SolveCandidate
    \/ OptimizeBegin /\ UNCHANGED <<favars, datavars>>
    \/ ObjectiveAny
    \/ OptimizeEndAny

Spec == Init /\ [][Next]_vars

\* optimize() from its first line to its return, for the objectives of
\* Objectives, over one kind of variable at a time.  The customer bounds are
\* the caller's: the whole range, a range that reaches below zero, and a
\* range that lies below zero.  The variance of the utilizations is taken on
\* networks of one station: on two stations its exact value has denominators
\* beyond the integers of the model.
ObjectivesOf(K) == IF K = 1 THEN Objectives ELSE Objectives \ {"utilization_variance"}

CustomerBounds == {<<Rat(1), Rat(MaxN)>>, <<Rat(-1), Rat(1)>>, <<Rat(-1), Rat(-1)>>}

NewOptimizerOpt ==
    /\ base_network # None
    /\ optimizer = NoObject
    /\ \E objective \in ObjectivesOf(heap[base_network].K) :
          \E cost_params \in (IF objective = "profit" THEN CostParams ELSE {NoObject}) :
              \/ \E customer_bounds \in CustomerBounds :
                    NewOptimizer(objective, {"num_customers"}, customer_bounds, <<>>, cost_params)
              \/ \E optimize_vars \in {{"num_servers"}, {"service_rates"}} :
                    NewOptimizer(objective, optimize_vars, <<Rat(1), Rat(MaxN)>>, <<>>,
                                 cost_params)
    /\ UNCHANGED <<favars, datavars, runvars>>

NextOpt ==
    \/ ConstructBase
    \/ NewOptimizerOpt
    \/ OptimizeBegin /\ UNCHANGED <<favars, datavars>>
    \/ ObjectiveAny
    \/ OptimizeEndAny

SpecOpt == Init /\ [][NextOpt]_vars

\* One optimize() call on a fresh FireflyAlgorithm instance.
FreshRun ==
    /\ InitNet
    /\ NoCaller
    /\ NoOptimize
    /\ fireflies = <<>>
    /\ intensities = <<>>
    /\ best_solution = <<>>
    /\ best_value = Zero
    /\ iteration = 0
    /\ sweep = <<1, 1>>
    /\ history = EmptyHistory
    /\ returned = <<>>
    /\ results = <<>>
    /\ evaluations = 0
    /\ pc = "new"

InitFA ==
    /\ FreshRun
    /\ \E problem \in Problems, max_iterations \in 1..MaxIter :
          fa = [bounds |-> problem.bounds, integer_vars |-> problem.integer_vars,
                n_fireflies |-> NFireflies, max_iterations |-> max_iterations]

NextFA ==
    \/ InitializeFireflies /\ UNCHANGED <<netvars, datavars, runvars>>
    \/ EvaluateInitial /\ UNCHANGED <<netvars, datavars, runvars>>
    \/ Move /\ UNCHANGED <<netvars, datavars, runvars>>
    \/ Stay /\ UNCHANGED <<netvars, datavars, runvars>>
    \/ PerturbBest /\ UNCHANGED <<netvars, datavars, runvars>>
    \/ EndIteration /\ UNCHANGED <<netvars, datavars, runvars>>

SpecFA == InitFA /\ [][NextFA]_vars

\* How many times the caller calls optimize() on one instance.
MaxRuns == 2

\* The caller calls optimize() again on the instance: the locals of lines
\* 308-314 are new, self.history is the dict the constructor made (lines
\* 127-133), which optimize() never empties.
OptimizeAgain ==
    /\ pc = "done"
    /\ Len(returned) < MaxRuns
    /\ fireflies' = <<>>
    /\ intensities' = <<>>
    /\ best_solution' = <<>>
    /\ best_value' = Zero
    /\ iteration' = 0
    /\ sweep' = <<1, 1>>
    /\ results' = <<>>
    /\ evaluations' = 0
    /\ pc' = "new"
    /\ UNCHANGED <<fa, history, returned>>

InitAgain ==
    /\ FreshRun
    /\ \E problem \in {p \in Problems : p.bounds = <<<<Rat(1), Rat(3)>>>>} :
          fa = [bounds |-> problem.bounds, integer_vars |-> problem.integer_vars,
                n_fireflies |-> NFireflies, max_iterations |-> 1]

NextAgain ==
    \/ NextFA
    \/ OptimizeAgain /\ UNCHANGED <<netvars, datavars, runvars>>

SpecAgain == InitAgain /\ [][NextAgain]_vars

\* optimize() is sequential code: a step that can be taken is taken.
SpecFAFair == SpecFA /\ WF_vars(NextFA)

\* One round of a population of one more firefly, on the one-dimensional
\* problems with integer bounds: a firefly can then move more than once in a
\* sweep, and toward a firefly that has moved before it.
InitSweep ==
    /\ FreshRun
    /\ \E problem \in {p \in Problems : Len(p.bounds) = 1 /\ \A b \in {p.bounds[1]} : IsInteger(b[1]) /\ IsInteger(b[2])} :
          fa = [bounds |-> problem.bounds, integer_vars |-> problem.integer_vars,
                n_fireflies |-> NFireflies + 1, max_iterations |-> 1]

SpecSweep == InitSweep /\ [][NextFA]_vars

\* The caller of the data model: one network of valid counts, rates and
\* servers, then at most MaxSteps operations on it.
ConstructData ==
    /\ op = "none"
    /\ \E K \in StationCounts :
          \E rates \in BaseRates(K), routing \in DataRoutingArgs(K), names \in {<<>>, BaseNames(K)} :
              Construct(K, MaxN, rates, BaseServers(K, FALSE), routing, names)
    /\ UNCHANGED <<favars, datavars, runvars>>

CallerFrame ==
    /\ base_network # None
    /\ steps < MaxSteps
    /\ steps' = steps + 1
    /\ UNCHANGED <<base_network, candidate, arg_routing, arg_names, optimizer, vector,
                   metrics, solved, calls, phase>>
    /\ UNCHANGED <<favars, runvars>>

NextData ==
    \/ ConstructData
    \/ CallerFrame /\ GetConfiguration
    \/ CallerFrame /\ \E key \in {"station_names", "service_rates"} : MutateSnapshot(key)
    \/ CallerFrame /\ \E which \in {"routing_matrix", "station_names"} : MutateArgument(which)
    \/ CallerFrame /\ \E field \in {"P", "mu", "station_names"} : MutateNetwork(field)
    \/ CallerFrame /\ \E kw \in UpdateArgs(heap[base_network].K) : UpdateParameters(kw)
    \/ CallerFrame /\ ConstructSecond
    \/ CallerFrame /\ RoundTrip

SpecData == Init /\ [][NextData]_vars

(***************************************************************************)
(* Properties of the network and the solver (SpecNet).                     *)
(***************************************************************************)
SolvedNet == NetValue(heap, solved)

\* A network the application accepts: counts and rates positive, a server
\* at every station.
ValidNetwork(nv) ==
    /\ nv.K >= 1
    /\ nv.N >= 1
    /\ Len(nv.mu) = nv.K
    /\ Len(nv.m) = nv.K
    /\ \A i \in 1..nv.K : RGt0(nv.mu[i]) /\ nv.m[i][1] >= 1

\* C6: for every valid network the metrics solve() returns satisfy
\* Little's law at the solved population: mean_queue_length equals
\* throughput * mean_response_time, and the queue lengths sum to N.
LittlesLaw ==
    (op = "solve" /\ ValidNetwork(SolvedNet)) =>
        /\ metrics.mean_queue_length = RMul(metrics.throughput, metrics.mean_response_time)
        /\ RSum(metrics.queue_lengths) = Rat(SolvedNet.N)

LittlesLawWitness ==
    /\ op = "solve"
    /\ ValidNetwork(SolvedNet)
    /\ SolvedNet.K = 2
    /\ SolvedNet.N >= 2
    /\ SolvedNet.e[1] # SolvedNet.e[2]
    /\ \E i \in 1..2 : SolvedNet.m[i][1] > 1

\* C7: a solve() call changes no field of the network it reads, and a
\* second call on the same network returns the metrics of the first.
SolveIsPure ==
    [][op' = "solve" =>
          /\ NetValue(heap', solved') = NetValue(heap, solved')
          /\ (solved = solved' /\ calls >= 1) => metrics' = metrics]_vars

SolveIsPureWitness ==
    /\ op = "solve"
    /\ calls = 2
    /\ SolvedNet.K = 2
    /\ metrics.mean_response_time # Zero

WithN(nv, n) == [nv EXCEPT !.N = n]

\* C8: for one station with one server and a rate mu > 0, the
\* mean_response_time of solve() never decreases when N grows.
SingleStationMonotone ==
    (op = "solve" /\ SolvedNet.K = 1 /\ SolvedNet.m = <<One>> /\ RGt0(SolvedNet.mu[1])) =>
        \A N1 \in 1..SolvedNet.N : \A N2 \in N1..SolvedNet.N :
            RLe(solve(WithN(SolvedNet, N1)).mean_response_time,
                solve(WithN(SolvedNet, N2)).mean_response_time)

SingleStationMonotoneWitness ==
    /\ op = "solve"
    /\ SolvedNet.K = 1
    /\ SolvedNet.m = <<One>>
    /\ RGt0(SolvedNet.mu[1])
    /\ SolvedNet.N = MaxN
    /\ RLt(solve(WithN(SolvedNet, 1)).mean_response_time, metrics.mean_response_time)

\* C9: solve() fails with InvalidServiceRate whenever some station has
\* mu[i] <= 0, and returns no metrics with infinite, NaN or negative times.
SolveRejectsBadRate ==
    (op = "solve" /\ \E i \in 1..SolvedNet.K : RLe(SolvedNet.mu[i], Zero)) =>
        /\ err = "InvalidServiceRate"
        /\ metrics = NoObject

\* C10: construction fails fast, leaving no object, whenever K < 1, N < 1,
\* a list's length is not K, some num_servers[i] < 1 or some rate is
\* not positive.
ConstructionFailsFast ==
    (op = "construct" /\ base_network # None) =>
        ValidNetwork(NetValue(heap, base_network))

\* The profit of its definition: r * X - C_s * sum(mu) - C_N * N.
StatedProfit(nv, X, cp) ==
    RSub(RSub(RMul(cp.r, X), RMul(cp.C_s, RSum(nv.mu))), RMul(cp.C_N, Rat(nv.N)))

\* C22: on the metrics solve() returns for a valid network, the 'profit'
\* objective is -(r * X - C_s * sum(mu) - C_N * N) for the cost parameters
\* supplied: the cost of the service rates and of the population is subtracted.
ProfitSubtractsCosts ==
    (op = "solve" /\ err = "none" /\ ValidNetwork(SolvedNet)) =>
        \A cp \in CostParams \ {NoObject} :
            profit(metrics, cp) = RNeg(StatedProfit(SolvedNet, metrics.throughput, cp))

\* C23: the percentile objective is +infinity on a metrics record without
\* per-sample response times, as the record solve() returns is.
PercentileIsInfiniteWithoutSamples ==
    (op = "solve" /\ err = "none" /\ ValidNetwork(SolvedNet)) =>
        (~("response_time_samples" \in DOMAIN metrics) =>
            response_time_percentile(metrics, Rat(95)) = PosInf)

\* The recurrence as it is stated, at population n: R[n], X[n] and Q[n] from
\* Q[n - 1], with Q[0] = 0.
RECURSIVE StatedLevel(_, _)
StatedLevel(nv, n) ==
    IF n = 0
    THEN [R |-> [i \in 1..nv.K |-> Zero], X |-> Zero, Q |-> [i \in 1..nv.K |-> Zero]]
    ELSE The({The({The({[R |-> R, X |-> X,
                         Q |-> Tuple([i \in 1..nv.K |-> RMul(RMul(X, nv.e[i]), R[i])])] :
                        X \in {IF Dot(nv.e, R) = Zero THEN Zero
                               ELSE RDiv(Rat(n), Dot(nv.e, R))}}) :
                   R \in {Tuple([i \in 1..nv.K |->
                            IF nv.m[i] = One
                            THEN RMul(RDiv(One, nv.mu[i]), RAdd(One, Qprev[i]))
                            ELSE RMul(RDiv(One, nv.mu[i]),
                                      RAdd(One, RDiv(Qprev[i], nv.m[i])))])}}) :
              Qprev \in {StatedLevel(nv, n - 1).Q}})

\* K = 1, m = [1], mu = 2: the network of the stated example.
ExampleNet == [K |-> 1, N |-> 1, mu |-> <<Rat(2)>>, m |-> <<One>>, e |-> <<One>>]

\* C24: on a valid network solve() returns the values of the stated
\* recurrence at n = N; on the example network R(1) = 0.5, X(1) = 2, Q(1) = 1.
SolveIsTheRecurrence ==
    (op = "solve" /\ err = "none" /\ ValidNetwork(SolvedNet)) =>
        \E nv \in {SolvedNet} : \E final \in {StatedLevel(nv, nv.N)} :
            /\ metrics.response_times = final.R
            /\ metrics.queue_lengths = final.Q
            /\ metrics.throughput = final.X
            /\ metrics.mean_response_time = Dot(nv.e, final.R)
            /\ metrics.mean_queue_length = RSum(final.Q)
            /\ (nv.K = 1 /\ nv.N = 1 /\ nv.mu = ExampleNet.mu /\ nv.m = ExampleNet.m) =>
                  /\ metrics.response_times = <<Half>>
                  /\ metrics.throughput = Rat(2)
                  /\ metrics.queue_lengths = <<One>>

SolveIsTheRecurrenceWitness ==
    /\ op = "solve" /\ err = "none" /\ ValidNetwork(SolvedNet)
    /\ SolvedNet.K = 2
    /\ SolvedNet.N = MaxN
    /\ SolvedNet.m[1] = One
    /\ SolvedNet.m[2] = Rat(MaxServers)
    /\ metrics.queue_lengths[1] # metrics.queue_lengths[2]
    /\ metrics.response_times = StatedLevel(SolvedNet, MaxN).R

(***************************************************************************)
(* Properties of the optimizer's decoding (Spec).                          *)
(***************************************************************************)
Baseline == NetValue(heap, base_network)
Decoded == NetValue(heap, candidate)

\* C4: decoding is side-effect free on the baseline: no decode call, no
\* objective evaluation and no step of optimize() changes the baseline's
\* N, mu, m, P, visit ratios or station names.
DecodeKeepsBaseline ==
    [][op' \in {"decode", "objective", "optimize_begin", "optimize_end"} =>
          /\ base_network' = base_network
          /\ NetValue(heap', base_network) = NetValue(heap, base_network)]_vars

DecodeKeepsBaselineWitness ==
    /\ op = "optimize_end"
    /\ Decoded.N # Baseline.N
    /\ Decoded.m # Baseline.m
    /\ Decoded.mu # Baseline.mu
    /\ Baseline.K = 2

Entry(nv, var) ==
    IF var[1] = "num_customers" THEN Rat(nv.N)
    ELSE IF var[1] = "num_servers" THEN nv.m[var[2]]
    ELSE nv.mu[var[2]]

Selected(var_type) == var_type \in optimizer.optimize_vars

\* C5: decoding is lossless: the decoded network holds every selected
\* decision variable exactly as the vector gives it, a service rate
\* neither truncated nor rounded whatever the type of the baseline's rates,
\* and every parameter that was not selected as the baseline has it.
DecodeIsLossless ==
    op = "decode" =>
        /\ \A idx \in 1..Len(vector) :
               Entry(Decoded, optimizer.var_map[idx]) = vector[idx]
        /\ ~Selected("num_customers") => Decoded.N = Baseline.N
        /\ ~Selected("num_servers") => Decoded.m = Baseline.m
        /\ ~Selected("service_rates") => Decoded.mu = Baseline.mu
        /\ Decoded.P = Baseline.P
        /\ Decoded.e = Baseline.e
        /\ Decoded.station_names = Baseline.station_names

(***************************************************************************)
(* Properties of the firefly search (SpecFA).                              *)
(***************************************************************************)
\* C1: the best vector optimize() returns lies within the bounds in every
\* dimension, and its entries on integer dimensions are integers, also
\* when the bounds of an integer dimension are no integers.
BestWithinBounds ==
    pc = "done" =>
        \A d \in 1..n_dimensions :
            /\ RLe(lower_bounds(fa)[d], best_solution[d])
            /\ RLe(best_solution[d], upper_bounds(fa)[d])
            /\ d \in fa.integer_vars => IsInteger(best_solution[d])

\* C2: the recorded best values never increase from one round to the
\* next, whatever the population scores in a round.
BestValuesNonIncreasing ==
    \A k \in 1..(Len(history.best_values) - 1) :
        RLe(history.best_values[k + 1], history.best_values[k])

\* A second round in which every evaluation raised, after a first one that
\* found a real value.
BestValuesNonIncreasingWitness ==
    /\ pc = "done"
    /\ Len(history.best_values) = 2
    /\ history.best_values[1] = Rat(1)
    /\ \A k \in 1..NFireflies : intensities[k] = Rat(Penalty)

HistoryLengths ==
    {Len(history.best_values), Len(history.mean_values), Len(history.worst_values),
     Len(history.best_solutions)}

\* C3 as stated: each list of the returned history has max_iterations + 1
\* entries, the first one recorded for the initial population.
HistoryHasInitialSnapshot ==
    /\ pc \in {"sweep", "perturb", "evaluate", "done"} => \A l \in HistoryLengths : l >= 1
    /\ pc = "done" => HistoryLengths = {fa.max_iterations + 1}

\* C3 as the code has it: each list of the history holds one entry per
\* finished round and nothing for the initial population, max_iterations
\* entries when optimize() returns.
HistoryHasOneEntryPerRound ==
    /\ HistoryLengths = {iteration}
    /\ pc = "done" => iteration = fa.max_iterations

HistoryHasOneEntryPerRoundWitness ==
    /\ pc = "done"
    /\ fa.max_iterations = MaxIter
    /\ HistoryLengths = {MaxIter}
    /\ history.best_solutions[MaxIter] = best_solution

\* C16: whatever the objective does, raising included, optimize() comes to
\* its end, after exactly max_iterations rounds and one evaluation of each
\* of the n positions before the first round and in every round; an
\* evaluation that raised scores the penalty in that round and every other
\* one the value the objective returned.
RunsFullBudget ==
    /\ <>(pc = "done")
    /\ [](pc = "done" =>
             /\ iteration = fa.max_iterations
             /\ evaluations = NFireflies * (fa.max_iterations + 1))
    /\ [](pc \in {"sweep", "perturb", "evaluate", "done"} =>
             /\ evaluations = NFireflies * (iteration + 1)
             /\ DOMAIN intensities = 1..NFireflies
             /\ \A k \in 1..NFireflies :
                    intensities[k] = IF results[k].raised THEN Rat(Penalty)
                                     ELSE results[k].value)

\* A full run in whose last round the first evaluation raised and the
\* second did not.
RunsFullBudgetWitness ==
    /\ pc = "done"
    /\ iteration = MaxIter
    /\ results[1].raised
    /\ ~results[2].raised
    /\ intensities[1] = Rat(Penalty)
    /\ intensities[2] = results[2].value

\* C17: the best value optimize() returns is never the penalty: it is a
\* value the objective returned for some candidate.
BestIsNeverPenalty ==
    pc = "done" => best_value # Rat(Penalty) /\ best_value \in ObjectiveValues

\* The pair that follows <<i, j>> in the order of the two loops: j runs
\* through the population for every i.
PairAfter(i, j, n) == IF j < n THEN <<i, j + 1>> ELSE <<i + 1, 1>>

\* C25: in the pairwise sweep the pairs are taken with i and then j in index
\* order; at the pair <<i, j>> firefly i moves, in place, exactly when the
\* intensity of j is strictly below its own, from the positions i and j have
\* at that moment; no other firefly changes, and the intensities stay those
\* of the evaluation before the sweep until the sweep and the perturbation of
\* the best firefly are over.
SweepIsInPlace ==
    [][/\ pc = "sweep" =>
            \E i \in {sweep[1]}, j \in {sweep[2]} :
                /\ intensities' = intensities
                /\ IF RLt(intensities[j], intensities[i])
                   THEN \E u \in RandVectors(n_dimensions) :
                            fireflies' = [fireflies EXCEPT ![i] =
                                move_firefly(fa, fireflies[i], fireflies[j],
                                    attractiveness(SquaredDistance(fireflies[i], fireflies[j])), u)]
                   ELSE fireflies' = fireflies
                /\ sweep' = PairAfter(i, j, fa.n_fireflies)
                /\ pc' = (IF i = fa.n_fireflies /\ j = fa.n_fireflies THEN "perturb" ELSE "sweep")
       /\ pc = "perturb" => intensities' = intensities /\ pc' = "evaluate"]_vars

\* Firefly 3 has moved toward firefly 1, which had moved toward firefly 2
\* earlier in the same sweep, and firefly 1 has not followed an equal.
SweepIsInPlaceWitness ==
    /\ pc = "sweep"
    /\ fa.n_fireflies = 3
    /\ sweep = <<3, 2>>
    /\ RLt(intensities[2], intensities[1])
    /\ RLt(intensities[1], intensities[3])
    /\ fireflies[3] # fireflies[1]
    /\ fireflies[1] # fireflies[2]

\* C26, as stated: a move of the sweep sets pos[i] to exactly
\* pos[i] + beta * (pos[j] - pos[i]) + alpha * (u - 0.5), neither clipped nor
\* rounded; clipping and rounding wait for the end of the sweep.
MoveIsNotClipped ==
    [][(pc = "sweep" /\ RLt(intensities[sweep[2]], intensities[sweep[1]])) =>
            \E i \in {sweep[1]}, j \in {sweep[2]} :
                \E u \in RandVectors(n_dimensions) :
                    fireflies'[i] = MoveUnclipped(fa, fireflies[i], fireflies[j],
                        attractiveness(SquaredDistance(fireflies[i], fireflies[j])), u)]_vars

\* A position that clipping to the bounds and then rounding the integer
\* dimensions leaves as it is.
Settled(x) == x = RoundIntegerVars(fa, ClipToBounds(fa, x))

\* C26, amended: every move of the sweep clips the new position to the bounds
\* and then rounds its integer dimensions, at once: in every state of the
\* sweep and after it every position of the population is clipped and rounded,
\* and the pass after the sweep changes the best firefly only.
MoveClipsAndRounds ==
    [][/\ pc' \in {"sweep", "perturb", "evaluate", "done"} =>
            \A k \in 1..fa.n_fireflies : Settled(fireflies'[k])
       /\ (pc = "sweep" /\ RLt(intensities[sweep[2]], intensities[sweep[1]])) =>
            \E i \in {sweep[1]}, j \in {sweep[2]} :
                \E u \in RandVectors(n_dimensions) :
                    fireflies'[i] = RoundIntegerVars(fa, ClipToBounds(fa,
                        MoveUnclipped(fa, fireflies[i], fireflies[j],
                            attractiveness(SquaredDistance(fireflies[i], fireflies[j])), u)))
       /\ pc = "perturb" =>
            \A k \in 1..fa.n_fireflies : k # argmin(intensities) => fireflies'[k] = fireflies[k]]_vars

\* Firefly 1 has just moved toward firefly 2 (pair (1, 2), firefly 2 the
\* brighter) and stands where no unclipped, unrounded move ends: with the
\* attractiveness beta_0 the unclipped position is firefly 2's plus the random
\* step, wherever firefly 1 started.
MoveClipsAndRoundsWitness ==
    /\ pc = "sweep"
    /\ sweep = <<2, 1>>
    /\ RLt(intensities[2], intensities[1])
    /\ \A u \in RandVectors(n_dimensions) :
          fireflies[1] # MoveUnclipped(fa, fireflies[1], fireflies[2],
                             attractiveness(SquaredDistance(fireflies[1], fireflies[2])), u)

\* The least value of a sequence of intensities.
LeastOf(xs) == CHOOSE v \in {xs[k] : k \in DOMAIN xs} : \A l \in DOMAIN xs : RLe(v, xs[l])

\* C27: the pair (best_solution, best_value) is the best of the whole run.
\* After the first evaluation best_value is the least intensity of the initial
\* population; after the evaluation of a round it is the lesser of the best so
\* far and the least intensity of the round, so at the return it is the least
\* of all the intensities evaluated.  best_solution is the position that had
\* that intensity when it was evaluated, the pair is replaced on a strict
\* improvement only, and the moves of the sweep and the random walk of the
\* best firefly leave the pair as it is.
BestIsBestOfRun ==
    [][/\ pc = "initialized" =>
            /\ best_value' = LeastOf(intensities')
            /\ \E k \in 1..fa.n_fireflies :
                  intensities'[k] = best_value' /\ best_solution' = fireflies[k]
       /\ pc = "evaluate" =>
            IF RLt(LeastOf(intensities'), best_value)
            THEN /\ best_value' = LeastOf(intensities')
                 /\ \E k \in 1..fa.n_fireflies :
                       intensities'[k] = best_value' /\ best_solution' = fireflies[k]
            ELSE /\ best_value' = best_value
                 /\ best_solution' = best_solution
       /\ pc \in {"sweep", "perturb"} =>
            /\ best_value' = best_value
            /\ best_solution' = best_solution]_vars

\* The run has ended, the best of the run is better than every firefly of the
\* last population, and no firefly stands at the best position any more.
BestIsBestOfRunWitness ==
    /\ pc = "done"
    /\ iteration = MaxIter
    /\ RLt(best_value, LeastOf(intensities))
    /\ \A k \in 1..fa.n_fireflies : fireflies[k] # best_solution

\* The object a returned history refers to, as it is now.
HistoryObject(ref) == IF ref = "self.history" THEN history ELSE EmptyHistory

\* C28: the instance keeps no state between optimize() calls.  When the
\* second call on the same instance has returned, the history it returned
\* holds the entries of that call only (one per iteration), and the history
\* object the first call returned still holds what it held at its return.
OptimizeKeepsNoState ==
    (pc = "done" /\ Len(returned) = 2) =>
        /\ Len(HistoryObject(returned[2].history).best_values) = fa.max_iterations
        /\ HistoryObject(returned[1].history) = returned[1].seen

\* How many dimensions a kind of variable takes when it is selected.
DimensionsOf(var_type, width) == IF Selected(var_type) THEN width ELSE 0

\* C29: the search space has one dimension per scalar decision variable,
\* laid out as num_customers (when selected), then one num_servers entry per
\* station in the order of the stations (when selected), then one
\* service_rates entry per station (when selected); the bounds and the
\* positional map have the same length, the integer mask is the set of the
\* indices the map gives to num_customers or num_servers, and no index of a
\* service rate is in the mask.
SearchSpaceLayout ==
    optimizer # NoObject =>
        LET nc == DimensionsOf("num_customers", 1)
            ns == DimensionsOf("num_servers", Baseline.K)
            nr == DimensionsOf("service_rates", Baseline.K)
        IN  /\ Len(optimizer.var_map) = nc + ns + nr
            /\ Len(optimizer.bounds) = Len(optimizer.var_map)
            /\ \A d \in 1..Len(optimizer.var_map) :
                  optimizer.var_map[d] =
                      IF d <= nc THEN <<"num_customers", None>>
                      ELSE IF d <= nc + ns THEN <<"num_servers", d - nc>>
                      ELSE <<"service_rates", d - nc - ns>>
            /\ optimizer.integer_vars =
                  {d \in 1..Len(optimizer.var_map) :
                      optimizer.var_map[d][1] \in {"num_customers", "num_servers"}}
            /\ \A d \in optimizer.integer_vars : optimizer.var_map[d][1] # "service_rates"

\* All three kinds of variable are selected on a network of two stations:
\* five dimensions, the first three of them integer.
SearchSpaceLayoutWitness ==
    /\ optimizer # NoObject
    /\ Baseline.K = 2
    /\ optimizer.optimize_vars = {"num_customers", "num_servers", "service_rates"}
    /\ Len(optimizer.bounds) = 5
    /\ optimizer.integer_vars = {1, 2, 3}
    /\ optimizer.var_map[5] = <<"service_rates", 2>>

(***************************************************************************)
(* Properties of the data model under its caller (SpecData).               *)
(***************************************************************************)
FirstNet == NetValue(heap, base_network)

\* len(mu) = len(m) = K, mu[i] > 0, m[i] >= 1, P is K x K and every row of
\* P sums to 1.
WellFormed(nv) ==
    /\ Len(nv.mu) = nv.K
    /\ Len(nv.m) = nv.K
    /\ \A i \in 1..nv.K : RGt0(nv.mu[i]) /\ nv.m[i][1] >= 1
    /\ Len(nv.P) = nv.K
    /\ \A i \in 1..nv.K : Len(nv.P[i]) = nv.K /\ AllCloseToOne(RSum(nv.P[i]))

\* C11: the network a successful construction returns is well formed (a
\* routing matrix of the wrong shape or with a row not summing to 1 is
\* rejected), and every update_parameters call on a well-formed network
\* leaves it well formed.
DataModelInvariant ==
    [][/\ (op' = "construct" /\ err' = "none") =>
              WellFormed(NetValue(heap', base_network'))
       /\ (op' = "update" /\ WellFormed(FirstNet)) =>
              WellFormed(NetValue(heap', base_network'))]_vars

\* e[i] >= 0, |sum(e) - 1| <= 1e-6 and e * P = e.
Stationary(nv) ==
    /\ \A i \in 1..nv.K : RLe(Zero, nv.e[i])
    /\ RLe(RAbs(RSub(RSum(nv.e), One)), <<1, 1000000>>)
    /\ \A j \in 1..nv.K :
           RSum(Tuple([i \in 1..nv.K |-> RMul(nv.e[i], nv.P[i][j])])) = nv.e[j]

\* C12: after a construction and after an update_parameters call that gives
\* routing_matrix the visit ratios are stationary for the network's P; an
\* update_parameters call that gives no routing_matrix replaces m and mu by
\* what it is given and changes nothing else.
VisitRatiosStationary ==
    [][/\ (op' = "construct" /\ err' = "none") => Stationary(NetValue(heap', base_network'))
       /\ (op' = "update" /\ kwargs'.routing_matrix # NoObject) =>
              Stationary(NetValue(heap', base_network'))
       /\ (op' = "update" /\ kwargs'.routing_matrix = NoObject) =>
              NetValue(heap', base_network') =
                  [FirstNet EXCEPT
                      !.m = IF kwargs'.num_servers = NoObject THEN @
                            ELSE AsIntData(kwargs'.num_servers.data),
                      !.mu = IF kwargs'.service_rates = NoObject THEN @
                             ELSE kwargs'.service_rates.data,
                      !.mu_dtype = IF kwargs'.service_rates = NoObject THEN @
                                   ELSE kwargs'.service_rates.dtype]]_vars

\* C13: writing into a snapshot get_configuration() returned changes no
\* value of the network, and an update of the network changes no value of a
\* snapshot taken before it.
SnapshotIsIndependent ==
    [][/\ op' = "mutate_snapshot" =>
              NetValue(heap', base_network) = NetValue(heap, base_network)
       /\ (op' = "update" /\ snapshot # NoObject) =>
              SnapshotValue(heap', snapshot') = SnapshotValue(heap, snapshot)]_vars

\* The networks the caller holds.
Networks == {base_network, second_network} \ {None}

\* C14: no two networks share an array: a write into the caller's own
\* routing_matrix or station_names argument changes no network built from
\* it, and a write into an array of the first network changes nothing the
\* second holds.
NoSharedArrays ==
    [][/\ op' = "mutate_argument" =>
              \A n \in Networks : NetValue(heap', n) = NetValue(heap, n)
       /\ (op' = "mutate_network" /\ second_network # None) =>
              NetValue(heap', second_network) = NetValue(heap, second_network)]_vars

\* C15: for a valid network, the constructor fed with the values of the
\* snapshot succeeds, and the network it builds solves to the metrics of
\* the original.
RoundTripReproduces ==
    (op = "round_trip" /\ ValidNetwork(FirstNet)) =>
        /\ err = "none"
        /\ second_network # None
        /\ solve(NetValue(heap, second_network)) = solve(FirstNet)

(***************************************************************************)
(* Properties of optimize() (SpecOpt).                                     *)
(***************************************************************************)
\* C18: optimize() completes and returns a result whatever the evaluations of
\* the search did: a candidate whose decode, solve or score raises costs the
\* penalty and raises nothing, and the optimized metrics of the result are
\* those of solving the decoded best vector.
OptimizeAlwaysCompletes ==
    /\ op = "objective" => err = "none"
    /\ op = "optimize_end" =>
          /\ err = "none"
          /\ result # NoObject
          /\ result.optimized.metrics = solve(Decoded)

\* C19: the percent improvement is (baseline - best) / baseline * 100, and a
\* baseline objective of exactly zero makes optimize() fail: no result is
\* returned whose percent is NaN or infinite.
ZeroBaselineIsAnError ==
    op = "optimize_end" =>
        /\ run.baseline_objective = Zero => err # "none" /\ result = NoObject
        /\ result # NoObject =>
              /\ result.improvement.percent =
                     RMul(RDiv(RSub(result.baseline.objective_value,
                                    result.optimized.objective_value),
                               result.baseline.objective_value), Rat(100))
              /\ IsFinite(result.improvement.percent)

\* The bounds of the search space hold the baseline configuration.
BaselineInSpace ==
    \A d \in 1..Len(optimizer.bounds) :
        /\ RLe(optimizer.bounds[d][1], Entry(Baseline, optimizer.var_map[d]))
        /\ RLe(Entry(Baseline, optimizer.var_map[d]), optimizer.bounds[d][2])

\* C20: with the objective 'throughput' and a search space that holds the
\* baseline configuration, the result's optimized throughput is not below
\* the baseline's and its improvement percent is not below zero.
ThroughputNeverDecreases ==
    (/\ op = "optimize_end"
     /\ result # NoObject
     /\ optimizer.objective_name = "throughput"
     /\ BaselineInSpace) =>
        /\ RLe(result.baseline.metrics.throughput, result.optimized.metrics.throughput)
        /\ RLe(Zero, result.improvement.percent)

\* C21: with the objective 'mean_response_time' searched over num_servers
\* within bounds that hold the baseline's server counts, the mean response
\* time of the result's optimized metrics is never above the baseline's,
\* whatever vectors the search met.
ResponseTimeNeverWorse ==
    (/\ op = "optimize_end"
     /\ result # NoObject
     /\ optimizer.objective_name = "mean_response_time"
     /\ optimizer.optimize_vars = {"num_servers"}
     /\ BaselineInSpace) =>
        RLe(result.optimized.metrics.mean_response_time,
            result.baseline.metrics.mean_response_time)

\* What an objective gives on a metrics record when it is scored with the
\* caller's cost parameters (the instance's cost_params; only profit reads them).
StatedScore(m) ==
    IF optimizer.objective_name = "profit" THEN profit(m, optimizer.cost_params)
    ELSE objective_function_raw(optimizer.objective_name, m)

\* C30: the baseline and the candidates are scored with the same function and
\* the same parameters: in the Result baseline.objective_value is the
\* objective of the baseline metrics with the caller's cost parameters, and
\* optimized.objective_value is the objective of the optimized metrics.
SameScoringForBaseline ==
    (op = "optimize_end" /\ result # NoObject) =>
        /\ result.baseline.objective_value = StatedScore(result.baseline.metrics)
        /\ result.optimized.objective_value = StatedScore(result.optimized.metrics)

=============================================================================
